---- MODULE Spec2Model ----
(***************************************************************************)
(* Model of src/admm.py: the dataclass CPDADMM and its __call__, the       *)
(* per-mode ADMM sub-problem solver of a constrained CP decomposition.     *)
(*                                                                         *)
(* Numbers.  A float is modelled as a pair <<n, d>>: the exact rational    *)
(* n/d (d > 0, lowest terms) or, with d = 0, one of the three IEEE special *)
(* values numpy produces on a division by zero: <<1,0>> = +inf,            *)
(* <<-1,0>> = -inf, <<0,0>> = nan.  The rational is the value the float64  *)
(* computation approximates: equal to it while every intermediate result   *)
(* is a dyadic rational (float64 then computes exactly), within rounding   *)
(* error of it otherwise.  Rounding error is far smaller than the distance *)
(* between two different rationals of the sizes used here, so it can turn  *)
(* a comparison only where the two exact values are equal: there the       *)
(* outcome of res < tol depends on the order in which the BLAS build       *)
(* accumulates its sums, and the model leaves it open (ResLessOutcomes).   *)
(* A rational zero is taken to be a float zero.                            *)
(*                                                                         *)
(* Matrices.  A 2-D ndarray is a record [nr, nc, v] with v[i][j] its       *)
(* entries; nr or nc may be 0 (numpy's empty arrays).  The operators +, @, *)
(* .T, scalar *, np.eye, np.trace, la.inv and la.norm follow numpy: + and  *)
(* - broadcast, @ demands equal inner dimensions, la.inv raises on an      *)
(* exactly singular matrix.  The arithmetic is written as functions on     *)
(* Float and Matrix, so that an argument is evaluated once.                *)
(***************************************************************************)
EXTENDS Integers, Sequences, FiniteSets, TLC

\* ------------------------------------------------------------------ floats

Float == Int \X Int

Abs(x) == IF x < 0 THEN -x ELSE x

Sgn(x) == IF x < 0 THEN -1 ELSE IF x > 0 THEN 1 ELSE 0

GCD[a \in Nat, b \in Nat] == IF b = 0 THEN a ELSE GCD[b, a % b]

\* n/d in lowest terms with a positive denominator; d = 0 gives inf, -inf, nan.
Frac[n \in Int, d \in Int] ==
    IF d = 0 THEN <<Sgn(n), 0>>
    ELSE LET g == GCD[Abs(n), Abs(d)]
         IN  <<Sgn(d) * Sgn(n) * (Abs(n) \div g), Abs(d) \div g>>

Num(k) == <<k, 1>>
NaN == <<0, 0>>
Inf == <<1, 0>>

IsNaN(a) == a = NaN
IsFinite(a) == a[2] > 0

FAdd[a \in Float, b \in Float] ==
    IF a[2] = 0 /\ b[2] = 0 THEN (IF a = b THEN a ELSE NaN)
    ELSE IF a[2] = 0 THEN a
    ELSE IF b[2] = 0 THEN b
    ELSE LET g == GCD[a[2], b[2]]
         IN  Frac[a[1] * (b[2] \div g) + b[1] * (a[2] \div g),
                  a[2] * (b[2] \div g)]

FNeg(a) == <<-a[1], a[2]>>

FSub(a, b) == FAdd[a, FNeg(b)]

FMul[a \in Float, b \in Float] ==
    IF a[2] = 0 \/ b[2] = 0 THEN <<Sgn(a[1]) * Sgn(b[1]), 0>>
    ELSE LET g == GCD[Abs(a[1]), b[2]]
             h == GCD[Abs(b[1]), a[2]]
         IN  Frac[(a[1] \div g) * (b[1] \div h), (a[2] \div h) * (b[2] \div g)]

\* a / b as numpy's float64 computes it: x/0 is inf, -inf or nan, never an error.
FDiv[a \in Float, b \in Float] ==
    IF IsNaN(a) \/ IsNaN(b) THEN NaN
    ELSE IF a[2] = 0 THEN (IF b[2] = 0 THEN NaN
                           ELSE <<a[1] * (IF b[1] < 0 THEN -1 ELSE 1), 0>>)
    ELSE IF b[2] = 0 THEN Num(0)
    ELSE IF b[1] = 0 THEN <<Sgn(a[1]), 0>>
    ELSE FMul[a, <<Sgn(b[1]) * b[2], Abs(b[1])>>]

\* a < b; every comparison with nan is False.
FLess[a \in Float, b \in Float] ==
    IF IsNaN(a) \/ IsNaN(b) THEN FALSE
    ELSE IF a[2] = 0 /\ b[2] = 0 THEN a[1] < b[1]
    ELSE IF a[2] = 0 THEN a[1] < 0
    ELSE IF b[2] = 0 THEN b[1] > 0
    ELSE LET g == GCD[a[2], b[2]]
         IN  a[1] * (b[2] \div g) < b[1] * (a[2] \div g)

FMax[a \in Float, b \in Float] == IF FLess[a, b] THEN b ELSE a

\* ---------------------------------------------------------------- matrices

Matrix == [nr : Nat, nc : Nat, v : Seq(Seq(Float))]

\* A matrix literal of integers, given by its rows.
IntMat(rows) ==
    [nr |-> Len(rows), nc |-> Len(rows[1]),
     v |-> [i \in 1..Len(rows) |-> [j \in 1..Len(rows[1]) |-> Num(rows[i][j])]]]

\* The nr x nc matrix without entries: nr or nc is 0.
Empty(nr, nc) ==
    [nr |-> nr, nc |-> nc, v |-> [i \in 1..nr |-> [j \in 1..nc |-> Num(0)]]]

\* f[1] + ... + f[n].
SumTo[f \in Seq(Float), n \in Nat] ==
    IF n = 0 THEN Num(0) ELSE FAdd[SumTo[f, n - 1], f[n]]

Transpose[A \in Matrix] ==
    [nr |-> A.nc, nc |-> A.nr,
     v |-> [i \in 1..A.nc |-> [j \in 1..A.nr |-> A.v[j][i]]]]

\* A @ B is defined when the inner dimensions agree (ValueError otherwise).
CanMatMul(A, B) == A.nc = B.nr

MatMul[A \in Matrix, B \in Matrix] ==
    [nr |-> A.nr, nc |-> B.nc,
     v |-> [i \in 1..A.nr |-> [j \in 1..B.nc |->
              SumTo[[k \in 1..A.nc |-> FMul[A.v[i][k], B.v[k][j]]], A.nc]]]]

\* numpy broadcasting of two dimensions: equal, or one of them is 1.
DimOK(m, n) == m = n \/ m = 1 \/ n = 1
BDim(m, n) == IF m = 1 THEN n ELSE m

CanBroadcast(A, B) == DimOK(A.nr, B.nr) /\ DimOK(A.nc, B.nc)

\* Entry (i, j) of A stretched along its dimensions of size 1.
BAt(A, i, j) == A.v[IF A.nr = 1 THEN 1 ELSE i][IF A.nc = 1 THEN 1 ELSE j]

MatAdd[A \in Matrix, B \in Matrix] ==
    [nr |-> BDim(A.nr, B.nr), nc |-> BDim(A.nc, B.nc),
     v |-> [i \in 1..BDim(A.nr, B.nr) |-> [j \in 1..BDim(A.nc, B.nc) |->
              FAdd[BAt(A, i, j), BAt(B, i, j)]]]]

MatSub[A \in Matrix, B \in Matrix] ==
    [nr |-> BDim(A.nr, B.nr), nc |-> BDim(A.nc, B.nc),
     v |-> [i \in 1..BDim(A.nr, B.nr) |-> [j \in 1..BDim(A.nc, B.nc) |->
              FSub(BAt(A, i, j), BAt(B, i, j))]]]

Scale[c \in Float, A \in Matrix] ==
    [nr |-> A.nr, nc |-> A.nc,
     v |-> [i \in 1..A.nr |-> [j \in 1..A.nc |-> FMul[c, A.v[i][j]]]]]

Eye(n) ==
    [nr |-> n, nc |-> n,
     v |-> [i \in 1..n |-> [j \in 1..n |-> IF i = j THEN Num(1) ELSE Num(0)]]]

Min2(m, n) == IF m < n THEN m ELSE n

Trace[A \in Matrix] ==
    SumTo[[k \in 1..Min2(A.nr, A.nc) |-> A.v[k][k]], Min2(A.nr, A.nc)]

\* A without row r and column c.
Minor[A \in Matrix, r \in Nat, c \in Nat] ==
    [nr |-> A.nr - 1, nc |-> A.nc - 1,
     v |-> [i \in 1..(A.nr - 1) |-> [j \in 1..(A.nc - 1) |->
              A.v[IF i < r THEN i ELSE i + 1][IF j < c THEN j ELSE j + 1]]]]

\* The determinant, expanded along the first row.
Det[A \in Matrix] ==
    IF A.nr = 0 THEN Num(1)
    ELSE SumTo[[j \in 1..A.nc |->
                  FMul[FMul[Num(IF j % 2 = 1 THEN 1 ELSE -1), A.v[1][j]],
                       Det[Minor[A, 1, j]]]], A.nc]

\* la.inv(A) exists for a square matrix unless it is singular (LinAlgError).
Invertible(A) == A.nr = A.nc /\ Det[A] # Num(0)

Inv[A \in Matrix] ==
    [nr |-> A.nr, nc |-> A.nc,
     v |-> [i \in 1..A.nr |-> [j \in 1..A.nc |->
              FDiv[FMul[Num(IF (i + j) % 2 = 0 THEN 1 ELSE -1),
                        Det[Minor[A, j, i]]], Det[A]]]]]

\* The square of la.norm(A), the Frobenius norm.
NormSq[A \in Matrix] ==
    SumTo[[i \in 1..A.nr |->
             SumTo[[j \in 1..A.nc |-> FMul[A.v[i][j], A.v[i][j]]], A.nc]], A.nr]

\* The square of la.norm(A) / la.norm(B): nan for 0/0 and inf for x/0, as the
\* quotient itself.  A residual is kept as this square, which is a rational.
RelResSq(A, B) == FDiv[NormSq[A], NormSq[B]]

\* res < tol for a residual kept as its square: a norm quotient is never
\* negative, so it is below tol exactly when tol > 0 and res^2 < tol^2.
ResLess[resSq \in Float, tol \in Float] ==
    /\ ~IsNaN(resSq)
    /\ FLess[Num(0), tol]
    /\ FLess[resSq, FMul[tol, tol]]

\* A float64 holds a rational exactly when its denominator is a power of two
\* (the numerators here are far below 2^53).
IsPow2[n \in Nat] == n = 1 \/ (n > 1 /\ n % 2 = 0 /\ IsPow2[n \div 2])

Dyadic(a) == a[2] > 0 /\ IsPow2[a[2]]

AllDyadic(A) == \A i \in 1..A.nr : \A j \in 1..A.nc : Dyadic(A.v[i][j])

\* The integer square root, by bisection; np.sqrt of a float that is a perfect
\* square is exact.
RootIn[n \in Nat, lo \in Nat, hi \in Nat] ==
    IF lo >= hi THEN lo
    ELSE LET m == (lo + hi + 1) \div 2
         IN  IF m * m <= n THEN RootIn[n, m, hi] ELSE RootIn[n, lo, m - 1]

IsSquare(a) ==
    /\ IsFinite(a) /\ a[1] >= 0
    /\ RootIn[a[1], 0, 46340] * RootIn[a[1], 0, 46340] = a[1]
    /\ RootIn[a[2], 0, 46340] * RootIn[a[2], 0, 46340] = a[2]

\* la.norm(A) / la.norm(B) in float64 is the exact quotient when A and B hold
\* exact entries, the exact quotient is the float tol, and either both norms
\* are rational (their squares perfect squares) or tol is a power of two (the
\* two square roots then round alike).
QuotientExact(A, tol) ==
    \/ IsSquare(NormSq[A])
    \/ (tol[1] > 0 /\ IsPow2[tol[1]] /\ Dyadic(tol))

\* The values res < tol can take in float64, for a residual kept as its
\* square.  Off the boundary the exact comparison decides.  On it (res = tol
\* exactly) a residual computed without rounding compares equal, so not
\* below; one computed with rounding lands on either side.
ResLessOutcomes(resSq, tol, exact) ==
    IF /\ IsFinite(resSq) /\ IsFinite(tol) /\ FLess[Num(0), tol]
       /\ resSq = FMul[tol, tol]
       /\ ~exact
    THEN {TRUE, FALSE}
    ELSE {ResLess[resSq, tol]}

\* ------------------------------------------------- the proximal dispatcher

KnownConstraints == {"identity", "nonneg"}

\* proximal_update_admm(factor, dual_var, rho, constraint, hyperparams): a pure
\* map from the estimate to a matrix of the same shape that satisfies the
\* named constraint; the identity kind returns the estimate, nonnegativity
\* clips it at 0.  An unknown kind is an error (see ProxKnown).
ProxKnown(c) == c \in KnownConstraints

proximal_update_admm(est, dv, r, c, hp) ==
    IF c = "nonneg"
    THEN [nr |-> est.nr, nc |-> est.nc,
          v |-> [i \in 1..est.nr |-> [j \in 1..est.nc |->
                   FMax[Num(0), est.v[i][j]]]]]
    ELSE est

\* ------------------------------------------------------------------ inputs

\* The largest iteration budget a solver is constructed with.
MaxIters == 3

Modes == {0}
Constraints == KnownConstraints \cup {"bogus"}
Hyperparams == {<<>>}
Tolerances == {Num(-1), Num(0), Frac[1, 2], Num(2)}
Budgets == -1..MaxIters

\* No call of the model runs more inner iterations than this; it is above
\* every budget, so it cuts no run that the stopping test stops.
IterCap == MaxIters + 2

TensorUnfoldings == {IntMat(<<<<1>>>>), IntMat(<<<<-1>>>>), IntMat(<<<<1>>, <<-1>>>>)}
KrProducts ==
    {IntMat(<<<<1>>>>), IntMat(<<<<0>>>>), IntMat(<<<<1, 0>>, <<0, 1>>>>), Empty(1, 0)}
Factors ==
    {IntMat(<<<<1>>>>), IntMat(<<<<0>>>>), IntMat(<<<<1, -1>>>>), Empty(1, 0)}
DualVars ==
    {IntMat(<<<<1>>>>), IntMat(<<<<0>>>>), IntMat(<<<<0, 1>>>>), IntMat(<<<<1>>, <<1>>>>)}
Bsums == {Num(0), Frac[1, 2]}

\* The four inputs agree on J, I and R: tensor_unfolding is J x I, kr_product
\* J x R, factor and dual_var I x R.
ShapesAgree(a) ==
    /\ a.tensor_unfolding.nr = a.kr_product.nr
    /\ a.tensor_unfolding.nc = a.factor.nr
    /\ a.kr_product.nc = a.factor.nc
    /\ a.dual_var.nr = a.factor.nr
    /\ a.dual_var.nc = a.factor.nc

\* ------------------------------------------------------------------- state

\* An attribute or a local that has no value yet.
Unset == [nr |-> -1, nc |-> -1, v |-> <<>>]
NoNum == <<0, -1>>
NoInt == -1
NoBool == FALSE

VARIABLES
    pc,             \* where the program is: new, idle, a line of __call__, done, raised
    err,            \* the exception that ended the last call, "" if none
    self,           \* the CPDADMM instance: its nine dataclass fields
    args,           \* the arguments of the current call, as the caller passed them
    result,         \* the pair the last call returned
    factor, dual_var, rank, kr_hadamard, rho, L, F, factor_conv, itr,
    factor_t, factor_0, prim_res, dual_res,
    stop_criter1, stop_criter2, stop_criter3,    \* the locals of __call__
    n_ridge, n_prox, n_dual                      \* steps run by the current call

locals == <<factor, dual_var, rank, kr_hadamard, rho, L, F, factor_conv, itr,
            factor_t, factor_0, prim_res, dual_res>>
criteria == <<stop_criter1, stop_criter2, stop_criter3>>
counts == <<n_ridge, n_prox, n_dual>>
vars == <<pc, err, self, args, result, locals, criteria, counts>>

NoArgs == [tensor_unfolding |-> Unset, kr_product |-> Unset, factor |-> Unset,
           dual_var |-> Unset, bsum |-> Num(0)]

Init ==
    /\ pc = "new"
    /\ err = ""
    /\ self = [tensor_mode |-> NoInt, constraint |-> "", hyperparams |-> <<>>,
               tol_error |-> NoNum, n_iters |-> NoInt,
               factor_mat_0 |-> Unset, dual_var_0 |-> Unset,
               factor |-> Unset, dual_var |-> Unset]
    /\ args = NoArgs
    /\ result = <<>>
    /\ factor = Unset /\ dual_var = Unset /\ rank = NoInt /\ kr_hadamard = Unset
    /\ rho = NoNum /\ L = Unset /\ F = Unset /\ factor_conv = Unset /\ itr = NoInt
    /\ factor_t = Unset /\ factor_0 = Unset /\ prim_res = NoNum /\ dual_res = NoNum
    /\ stop_criter1 = NoBool /\ stop_criter2 = NoBool /\ stop_criter3 = NoBool
    /\ n_ridge = 0 /\ n_prox = 0 /\ n_dual = 0

\* An exception leaves __call__: the call is over and returns nothing.
Raise(e) == pc' = "raised" /\ err' = e

\* The dataclass __init__: stores the five configuration fields as given and
\* leaves the four init=False fields without a value.
Construct(m, c, h, tol, n) ==
    /\ pc = "new"
    /\ self' = [self EXCEPT !.tensor_mode = m, !.constraint = c, !.hyperparams = h,
                            !.tol_error = tol, !.n_iters = n]
    /\ pc' = "idle"
    /\ UNCHANGED <<err, args, result, locals, criteria, counts>>

\* Lines 46-47: a call begins; the instance keeps the two state arguments.
CallEntry(tu, kr, f, d, b) ==
    /\ pc \in {"idle", "done", "raised"}
    /\ args' = [tensor_unfolding |-> tu, kr_product |-> kr, factor |-> f,
                dual_var |-> d, bsum |-> b]
    /\ self' = [self EXCEPT !.factor_mat_0 = f, !.dual_var_0 = d]
    /\ factor' = f /\ dual_var' = d
    /\ rank' = NoInt /\ kr_hadamard' = Unset /\ rho' = NoNum /\ L' = Unset
    /\ F' = Unset /\ factor_conv' = Unset /\ itr' = NoInt
    /\ factor_t' = Unset /\ factor_0' = Unset
    /\ prim_res' = NoNum /\ dual_res' = NoNum
    /\ stop_criter1' = NoBool /\ stop_criter2' = NoBool /\ stop_criter3' = NoBool
    /\ n_ridge' = 0 /\ n_prox' = 0 /\ n_dual' = 0
    /\ err' = "" /\ result' = <<>>
    /\ pc' = "setup"

\* Lines 49-56: the Gram matrix, the step size, the system matrix, the
\* right-hand side, the anchor, the counter.
Setup ==
    /\ pc = "setup"
    /\ rank' = factor.nc
    /\ kr_hadamard' = MatMul[Transpose[args.kr_product], args.kr_product]
    /\ rho' = FDiv[Trace[kr_hadamard'], Num(rank')]
    /\ LET reg == Scale[FAdd[rho', args.bsum], Eye(rank')]
       IN  IF ~CanBroadcast(kr_hadamard', reg)
           THEN Raise("ValueError") /\ UNCHANGED <<L, F, factor_conv, itr>>
           ELSE /\ L' = MatAdd[kr_hadamard', reg]
                /\ IF ~CanMatMul(Transpose[args.kr_product], args.tensor_unfolding)
                   THEN Raise("ValueError") /\ UNCHANGED <<F, factor_conv, itr>>
                   ELSE /\ F' = MatMul[Transpose[args.kr_product],
                                       args.tensor_unfolding]
                        /\ factor_conv' = factor
                        /\ itr' = 0
                        /\ pc' = "ridge"
                        /\ UNCHANGED err
    /\ UNCHANGED <<self, args, result, factor, dual_var, factor_t, factor_0,
                   prim_res, dual_res, criteria, counts>>

\* Lines 58-63: the unconstrained ridge update, then factor_0 = factor.
Ridge ==
    /\ pc = "ridge"
    /\ itr < IterCap
    /\ n_ridge' = n_ridge + 1
    /\ IF ~Invertible(L) THEN Raise("LinAlgError") /\ UNCHANGED <<factor_t, factor_0>>
       ELSE IF ~CanBroadcast(factor, dual_var)
       THEN Raise("ValueError") /\ UNCHANGED <<factor_t, factor_0>>
       ELSE LET s1 == Scale[rho, Transpose[MatAdd[factor, dual_var]]]
                s2 == Scale[args.bsum, Transpose[factor_conv]]
            IN  IF ~CanBroadcast(F, s1) \/ ~CanBroadcast(MatAdd[F, s1], s2)
                   \/ ~CanMatMul(Inv[L], MatAdd[MatAdd[F, s1], s2])
                THEN Raise("ValueError") /\ UNCHANGED <<factor_t, factor_0>>
                ELSE /\ factor_t' =
                          Transpose[MatMul[Inv[L], MatAdd[MatAdd[F, s1], s2]]]
                     /\ factor_0' = factor
                     /\ pc' = "prox"
                     /\ UNCHANGED err
    /\ UNCHANGED <<self, args, result, factor, dual_var, rank, kr_hadamard, rho,
                   L, F, factor_conv, itr, prim_res, dual_res, criteria,
                   n_prox, n_dual>>

\* The proximal output written into the entry array (factor[:] = ...) instead
\* of rebinding the local: every alias of the entry factor changes with it.
ProxInPlace ==
    /\ pc = "prox"
    /\ n_prox' = n_prox + 1
    /\ IF ~ProxKnown(self.constraint)
       THEN Raise("InvalidConstraint") /\ UNCHANGED <<factor, factor_conv, self>>
       ELSE /\ factor' = proximal_update_admm(factor_t, dual_var, rho,
                                              self.constraint, self.hyperparams)
            /\ factor_conv' = factor'
            /\ self' = [self EXCEPT !.factor_mat_0 = factor']
            /\ pc' = "dual"
            /\ UNCHANGED err
    /\ UNCHANGED <<args, result, dual_var, rank, kr_hadamard, rho, L, F,
                   itr, factor_t, factor_0, prim_res, dual_res, criteria,
                   n_ridge, n_dual>>

\* Lines 64-70: the proximal dispatcher replaces the working factor.
Prox ==
    /\ pc = "prox"
    /\ n_prox' = n_prox + 1
    /\ IF ~ProxKnown(self.constraint)
       THEN Raise("InvalidConstraint") /\ UNCHANGED factor
       ELSE /\ factor' = proximal_update_admm(factor_t, dual_var, rho,
                                              self.constraint, self.hyperparams)
            /\ pc' = "dual"
            /\ UNCHANGED err
    /\ UNCHANGED <<self, args, result, dual_var, rank, kr_hadamard, rho, L, F,
                   factor_conv, itr, factor_t, factor_0, prim_res, dual_res,
                   criteria, n_ridge, n_dual>>

\* Line 72: dual ascent.
DualAscent ==
    /\ pc = "dual"
    /\ n_dual' = n_dual + 1
    /\ IF ~CanBroadcast(dual_var, factor)
          \/ ~CanBroadcast(MatAdd[dual_var, factor], factor_t)
       THEN Raise("ValueError") /\ UNCHANGED dual_var
       ELSE /\ dual_var' = MatSub[MatAdd[dual_var, factor], factor_t]
            /\ pc' = "resid"
            /\ UNCHANGED err
    /\ UNCHANGED <<self, args, result, factor, rank, kr_hadamard, rho, L, F,
                   factor_conv, itr, factor_t, factor_0, prim_res, dual_res,
                   criteria, n_ridge, n_prox>>

\* Lines 74-77: the two relative residuals, then the counter.
Residuals ==
    /\ pc = "resid"
    /\ IF ~CanBroadcast(factor, factor_t)
       THEN Raise("ValueError") /\ UNCHANGED <<prim_res, dual_res, itr>>
       ELSE /\ prim_res' = RelResSq(MatSub[factor, factor_t], factor)
            /\ IF ~CanBroadcast(factor, factor_0)
               THEN Raise("ValueError") /\ UNCHANGED <<dual_res, itr>>
               ELSE /\ dual_res' = RelResSq(MatSub[factor, factor_0], dual_var)
                    /\ itr' = itr + 1
                    /\ pc' = "test"
                    /\ UNCHANGED err
    /\ UNCHANGED <<self, args, result, factor, dual_var, rank, kr_hadamard, rho,
                   L, F, factor_conv, factor_t, factor_0, criteria, counts>>

\* Every float of the current call is the exact rational: the inputs, bsum,
\* rho and the entries of la.inv(L) are dyadic, and sums and products of
\* dyadic numbers are exact.
ExactArith ==
    /\ AllDyadic(args.tensor_unfolding) /\ AllDyadic(args.kr_product)
    /\ AllDyadic(args.factor) /\ AllDyadic(args.dual_var)
    /\ Dyadic(args.bsum) /\ Dyadic(rho)
    /\ AllDyadic(Inv[L])

\* Line 81 with another test of the budget.
StopCriter3Strict(k) == k > self.n_iters

StopCriter3Unbounded(k) == self.n_iters >= 0 /\ k >= self.n_iters

StopCriter3Exact(k) == k = self.n_iters

\* Line 81: the budget criterion; k is the counter after its increment.
StopCriter3(k) == k >= self.n_iters

\* Line 82 with the two residual criteria joined by or.
ShouldBreakOr(c1, c2, c3) == (c1 \/ c2) \/ c3

\* Line 82: the combination of the three criteria.
ShouldBreak(c1, c2, c3) == (c1 /\ c2) \/ c3

\* Lines 79-83: the three criteria, then break or go round the while True
\* loop again.
StopTest ==
    /\ pc = "test"
    /\ \E c1 \in ResLessOutcomes(prim_res, self.tol_error,
               ExactArith /\ QuotientExact(MatSub[factor, factor_t], self.tol_error)),
          c2 \in ResLessOutcomes(dual_res, self.tol_error,
               ExactArith /\ QuotientExact(MatSub[factor, factor_0], self.tol_error)) :
          /\ stop_criter1' = c1
          /\ stop_criter2' = c2
          /\ stop_criter3' = StopCriter3(itr)
          /\ pc' = IF ShouldBreak(c1, c2, StopCriter3(itr)) THEN "return" ELSE "ridge"
    /\ UNCHANGED <<err, self, args, result, locals, counts>>

\* A return that also records the iterations used in the budget field.
ReturnStoresCount ==
    /\ pc = "return"
    /\ result' = <<factor, dual_var>>
    /\ self' = [self EXCEPT !.n_iters = itr]
    /\ pc' = "done"
    /\ UNCHANGED <<err, args, locals, criteria, counts>>

\* Line 85: the call returns its two locals.
Return ==
    /\ pc = "return"
    /\ result' = <<factor, dual_var>>
    /\ pc' = "done"
    /\ UNCHANGED <<err, self, args, locals, criteria, counts>>

Step == Setup \/ Ridge \/ Prox \/ DualAscent \/ Residuals \/ StopTest \/ Return

Next ==
    \/ \E m \in Modes, c \in Constraints, h \in Hyperparams,
          tol \in Tolerances, n \in Budgets : Construct(m, c, h, tol, n)
    \/ \E tu \in TensorUnfoldings, kr \in KrProducts, f \in Factors,
          d \in DualVars, b \in Bsums : CallEntry(tu, kr, f, d, b)
    \/ Step

Spec == Init /\ [][Next]_vars

\* One call on a fresh instance, run to its end: __call__ is one blocking
\* computation, so a call that has been entered keeps taking steps.
FirstCall(tu, kr, f, d, b) == pc = "idle" /\ CallEntry(tu, kr, f, d, b)

NextOneCall ==
    \/ \E m \in Modes, c \in Constraints, h \in Hyperparams,
          tol \in Tolerances, n \in Budgets : Construct(m, c, h, tol, n)
    \/ \E tu \in TensorUnfoldings, kr \in KrProducts, f \in Factors,
          d \in DualVars, b \in Bsums : FirstCall(tu, kr, f, d, b)
    \/ Step

FairSpec == Init /\ [][NextOneCall]_vars /\ WF_vars(Step)

\* ------------------------------------------------------------------ claims

InLoop == pc \in {"ridge", "prox", "dual", "resid", "test"}
Returned == pc \in {"return", "done"}
Max2(m, n) == IF m < n THEN n ELSE m

\* C1: the loop stops at the end of inner iteration k exactly when (primal
\* residual < tol_error and dual residual < tol_error) or k >= n_iters: a call
\* that has left the loop satisfies the condition on its last residuals and
\* counter, and a call that went round again did not satisfy it.  The two
\* residual criteria are the float64 comparisons: true only for a residual at
\* most tol_error, false only for one at least tol_error or undefined.
C1_StopIff ==
    LET tol == self.tol_error
        cond == (stop_criter1 /\ stop_criter2) \/ stop_criter3
        again == pc \in {"ridge", "prox", "dual", "resid"} /\ itr >= 1
        Is(c, resSq) ==
            /\ c => /\ ~IsNaN(resSq) /\ FLess[Num(0), tol]
                    /\ ~FLess[FMul[tol, tol], resSq]
            /\ ~c => ~ResLess[resSq, tol]
    IN  /\ (Returned \/ again) => /\ Is(stop_criter1, prim_res)
                                  /\ Is(stop_criter2, dual_res)
                                  /\ stop_criter3 <=> itr >= self.n_iters
        /\ Returned => cond
        /\ again => ~cond

\* A call that went round at least once and then stopped on convergence,
\* before its budget was used up.
C1_Witness == pc = "done" /\ itr >= 2 /\ itr < self.n_iters

\* C2: with n_iters = 1 a call that returns has run exactly one inner
\* iteration (one ridge update, one proximal call, one dual ascent), and no
\* call runs a second one, whatever tol_error and the residuals are.
C2_OneIteration ==
    self.n_iters = 1 =>
        /\ itr <= 1 /\ n_ridge <= 1 /\ n_prox <= 1 /\ n_dual <= 1
        /\ Returned => itr = 1 /\ n_ridge = 1 /\ n_prox = 1 /\ n_dual = 1

\* A call with n_iters = 1 that returned with an undefined primal residual.
C2_Witness ==
    pc = "done" /\ self.n_iters = 1 /\ IsNaN(prim_res) /\ n_prox = 1

\* C3: once a call has returned, the instance holds both states of that call:
\* factor_mat_0 and dual_var_0 are the arguments received, and the fields
\* factor and dual_var are the pair returned.
C3_HoldsBothStates ==
    pc = "done" =>
        /\ self.factor_mat_0 = args.factor
        /\ self.dual_var_0 = args.dual_var
        /\ self.factor = result[1]
        /\ self.dual_var = result[2]

\* C4: a call whose inputs disagree on J, I or R ends in an error raised
\* before the Gram matrix, rho, L or F are computed and before any inner
\* iteration; it returns nothing.
C4_ShapeMismatchFailsFast ==
    (pc \notin {"new", "idle", "setup"} /\ ~ShapesAgree(args)) =>
        /\ pc = "raised"
        /\ kr_hadamard = Unset /\ rho = NoNum /\ L = Unset /\ F = Unset
        /\ n_ridge = 0

\* C5: no instance exists with a negative tol_error or an unknown constraint,
\* no inner iteration runs with rank < 1, and the proximal dispatcher is never
\* the one that discovers an unknown constraint.
C5_InvalidConfigRejected ==
    /\ pc # "new" => /\ ~FLess[self.tol_error, Num(0)]
                     /\ self.constraint \in KnownConstraints
    /\ rank = 0 => n_ridge = 0
    /\ err # "InvalidConstraint"

\* C6: the stopping test is never evaluated on an undefined (nan) residual:
\* a zero denominator is an error or gives a defined value.
C6_NoUndefinedResidual ==
    pc = "test" => ~IsNaN(prim_res) /\ ~IsNaN(dual_res)

\* C7: the five configuration fields keep the values given at construction,
\* through every step of every call, returning or raising.
Config == <<self.tensor_mode, self.constraint, self.hyperparams,
            self.tol_error, self.n_iters>>

C7_ConfigFixed == [][pc # "new" => Config' = Config]_vars

\* A call that returned after two iterations on a configured instance.
C7_Witness ==
    /\ pc = "done" /\ itr = 2
    /\ self.n_iters = 2 /\ self.constraint = "nonneg" /\ self.tol_error = Num(0)

\* C8: with n_iters the negative sentinel or 0, a call that returns has run
\* exactly one inner iteration and no call starts a second one, whether or
\* not the residuals are below tol_error.
C8_SentinelOneIteration ==
    (pc # "new" /\ self.n_iters <= 0) =>
        /\ itr <= 1 /\ n_ridge <= 1 /\ n_prox <= 1 /\ n_dual <= 1
        /\ Returned => itr = 1 /\ n_ridge = 1 /\ n_prox = 1 /\ n_dual = 1

\* A call with the default budget -1 that returned after one iteration with
\* finite residuals of which the dual one is not below a positive tolerance.
C8_Witness ==
    /\ pc = "done" /\ self.n_iters = -1 /\ itr = 1
    /\ FLess[Num(0), self.tol_error]
    /\ IsFinite(prim_res) /\ IsFinite(dual_res)
    /\ ~ResLess[dual_res, self.tol_error]

\* C9: throughout a call factor_conv and factor_mat_0 are the factor received
\* at entry, and every ridge update is the one computed with the entry factor
\* in its bsum term, however often the working factor has been replaced.
C9_AnchorFixed ==
    /\ (InLoop \/ Returned) =>
           factor_conv = args.factor /\ self.factor_mat_0 = args.factor
    /\ pc \in {"prox", "dual"} =>
           factor_t = Transpose[MatMul[Inv[L],
               MatAdd[MatAdd[F, Scale[rho, Transpose[MatAdd[factor_0, dual_var]]]],
                      Scale[args.bsum, Transpose[args.factor]]]]]

\* A second or later ridge update with bsum > 0, after the working factor
\* has moved away from the entry factor.
C9_Witness ==
    pc = "prox" /\ itr >= 1 /\ FLess[Num(0), args.bsum] /\ factor_0 # args.factor

\* C10: a call in which no step raises ends, after at least 1 and at most
\* max(1, n_iters) inner iterations, with one proximal call per iteration.
C10_Bound ==
    /\ itr <= Max2(1, self.n_iters)
    /\ Returned => itr >= 1 /\ n_ridge = itr /\ n_prox = itr /\ n_dual = itr
    /\ pc \in {"ridge", "test"} => n_prox = itr
    /\ pc = "prox" => n_prox = itr /\ n_ridge = itr + 1
    /\ pc \in {"dual", "resid"} => n_prox = itr + 1

C10_Terminates ==
    /\ []C10_Bound
    /\ (pc = "setup") ~> (pc \in {"done", "raised"})

\* A call that used up the largest budget with an undefined dual residual at
\* its last test.
C10_Witness == pc = "done" /\ itr = MaxIters /\ IsNaN(dual_res)

====
